---- MODULE Spec2Model ----
(***************************************************************************)
(* Model of the Raison client (src/src/client.ts): a per-instance prompt   *)
(* store kept current by the socket events 'sync', 'prompt:deployed' and  *)
(* 'prompt:undeployed', a one-shot readiness promise, the readers render /  *)
(* find / findOne that await it, the constructor's check of the API key    *)
(* and the process-wide Handlebars helper registry.                        *)
(*                                                                         *)
(* Every socket handler is an async function: it runs synchronously up to  *)
(* its first await and is suspended at each awaited store operation.  A    *)
(* handler in flight is a record of `handlers`; one action is one awaited  *)
(* store operation settling together with the synchronous code that        *)
(* follows it up to the next await.  The store is in memory and the job    *)
(* queue is first in, first out: operations settle in the order they were  *)
(* issued, so `handlers` is a queue, resumed at its head.  When the        *)
(* transport delivers an event, and when a reader or disconnect() is       *)
(* called, is left open: any moment between two such steps.                *)
(***************************************************************************)
EXTENDS Integers, Sequences, FiniteSets, TLC

\* ----------------------------------------------------------------- bounds
\* Longest record sequence of a 'sync' event when events are handled one at a time.
MaxSyncLen == 2
\* Longest record sequence of a 'sync' event when handlers overlap.
MaxConcLen == 1
\* Calls made on one instance: events delivered, reader calls, disconnect().
MaxCalls == 3
\* Socket handlers of one instance in flight at the same time.
MaxInFlight == 2
\* Calls made on one instance when two instances run side by side.
IsoCalls == 2
\* Calls made on the instance whose readers' results are followed.
ReadCalls == 2
\* Calls made on one instance when instances are constructed one by one.
NewCalls == 2

\* --------------------------------------------------------------- universe
Instances == {1, 2}

Fields == {"id", "name", "agentId", "version", "content"}

\* A content is held as the parts Handlebars' lexer cuts its string into: runs of
\* plain text and mustaches. `Source` gives the string back. A text is a run of
\* one character or more, none of them a brace, a backslash or a line break. A
\* name in a mustache, and a name a helper is registered under, is a plain
\* identifier: no path (a.b, ../a), no literal, none of Handlebars' own words
\* (this, else, true, false, null, undefined) and none of its built-in helpers
\* (if, unless, each, with, log, lookup, helperMissing, blockHelperMissing).
Text(s) == [t |-> "text", s |-> s]
\* {{name}}
Mustache(name) == [t |-> "var", name |-> name]
\* {{helper arg ...}}, each arg a name looked up in the variables
HelperCall(helper, args) == [t |-> "call", helper |-> helper, args |-> args]
\* {{#if arg ...}} and {{/if}}
IfOpen(args) == [t |-> "open", args |-> args]
IfClose == [t |-> "close"]

A1 == [id |-> "a", name |-> "Test Prompt", agentId |-> "g1", version |-> 1,
       content |-> <<Text("Hello "), Mustache("name"), Text("!")>>]
A2 == [id |-> "a", name |-> "Test Prompt", agentId |-> "g1", version |-> 2,
       content |-> <<Text("Updated!")>>]
B1 == [id |-> "b", name |-> "Other Prompt", agentId |-> "g2", version |-> 1,
       content |-> <<Text("New!")>>]

\* mockPrompt with the contents the render and registerHelper tests give it:
\* '', 'Hello {{#if}}!', 'Hello {{uppercase name}}!', '{{concat first second}}'
\* and '{{json data}}'.
AE == [A1 EXCEPT !.content = <<>>]
AM == [A1 EXCEPT !.content = <<Text("Hello "), IfOpen(<<>>), Text("!")>>]
AH == [A1 EXCEPT !.content =
        <<Text("Hello "), HelperCall("uppercase", <<"name">>), Text("!")>>]
AC == [A1 EXCEPT !.content = <<HelperCall("concat", <<"first", "second">>)>>]
AJ == [A1 EXCEPT !.content = <<HelperCall("json", <<"data">>)>>]

Prompts == {A1, A2, B1}
Ids == {p.id : p \in Prompts}

\* The record sequences a 'sync' event may carry.
RECURSIVE SeqsUpTo(_, _)
SeqsUpTo(S, n) ==
  IF n = 0 THEN {<<>>}
  ELSE LET shorter == SeqsUpTo(S, n - 1)
       IN  shorter \cup {Append(s, x) : s \in {t \in shorter : Len(t) = n - 1}, x \in S}

Snapshots == SeqsUpTo(Prompts, MaxSyncLen)

\* The events the transport can deliver, as (name, payload).
SyncEvent(S) == [kind |-> "sync", prompts |-> S, id |-> ""]
DeployedEvent(p) == [kind |-> "prompt:deployed", prompts |-> <<p>>, id |-> ""]
UndeployedEvent(id) == [kind |-> "prompt:undeployed", prompts |-> <<>>, id |-> id]

Events ==
  {SyncEvent(S) : S \in Snapshots}
    \cup {DeployedEvent(p) : p \in Prompts}
    \cup {UndeployedEvent(id) : id \in Ids}

\* The events delivered while other handlers may be in flight.
ConcEvents ==
  {SyncEvent(S) : S \in SeqsUpTo({A1, B1}, MaxConcLen)}
    \cup {DeployedEvent(p) : p \in {A2, B1}}
    \cup {UndeployedEvent(id) : id \in {"a"}}

\* The events delivered when two instances run side by side.
IsoEvents ==
  {SyncEvent(S) : S \in SeqsUpTo({A1, A2}, MaxConcLen)}
    \cup {DeployedEvent(p) : p \in {A2, B1}}

\* The events delivered to the instance whose readers' results are followed.
ReadEvents ==
  {SyncEvent(<<>>), SyncEvent(<<A1, B1>>)}
    \cup {SyncEvent(<<p>>) : p \in {AE, AM, AH, AC, AJ}}

\* The events delivered when instances are constructed one by one.
NewEvents == {SyncEvent(S) : S \in SeqsUpTo({AH}, MaxConcLen) \ {<<>>}}

\* The names the constructor registers a listener for.
Listened == {"sync", "prompt:deployed"}

Null == [none |-> TRUE]
\* The object {}: no field.
EmptyObject == [f \in {} |-> ""]
NoEvent == [kind |-> "none", prompts |-> <<>>, id |-> ""]

\* ------------------------------------------------------- the prompt store
\* A match on some field of the filter where every field is meant.
MatchesAny(doc, filter) == \E f \in DOMAIN filter : doc[f] = filter[f]

\* A query's filter is a partial record; a document matches when it agrees on
\* every field of the filter.
Matches(doc, filter) == \A f \in DOMAIN filter : doc[f] = filter[f]

\* A filter that never finds the document it names.
MatchIndexesNone(st, filter) == {}

MatchIndexes(st, filter) == {k \in 1..Len(st) : Matches(st[k], filter)}

FirstIndex(S) == CHOOSE k \in S : \A j \in S : k <= j

\* Model.find(filter): every matching document, in store order.
Find(st, filter) == SelectSeq(st, LAMBDA d : Matches(d, filter))

\* A lookup that takes the first document, whatever the filter.
FindOneAny(st, filter) == IF st = <<>> THEN Null ELSE st[1]

\* Model.findOne(filter): the first matching document, or null.
FindOne(st, filter) ==
  LET hits == MatchIndexes(st, filter)
  IN  IF hits = {} THEN Null ELSE st[FirstIndex(hits)]

\* A field-level merge that leaves the stored version in place.
ApplyUpdateKeepVersion(doc, update) ==
  [f \in Fields |-> IF f \in DOMAIN update /\ f # "version" THEN update[f] ELSE doc[f]]

\* The update of findOneAndUpdate sets every field the update names.
ApplyUpdate(doc, update) ==
  [f \in Fields |-> IF f \in DOMAIN update THEN update[f] ELSE doc[f]]

\* An insert where an upsert is meant.
FindOneAndUpdateInsert(st, filter, update) == Append(st, update)

\* Model.findOneAndUpdate(filter, update, { upsert: true }): updates the first
\* matching document, or inserts the update when none matches.
FindOneAndUpdate(st, filter, update) ==
  LET hits == MatchIndexes(st, filter)
  IN  IF hits = {}
      THEN Append(st, update)
      ELSE [st EXCEPT ![FirstIndex(hits)] = ApplyUpdate(@, update)]

\* $in where $nin is meant.
DeleteManyIn(st, ids) == SelectSeq(st, LAMBDA d : d.id \notin ids)

\* Model.deleteMany({ id: { $nin: ids } }): removes every document whose id
\* is not one of ids.
DeleteManyNin(st, ids) == SelectSeq(st, LAMBDA d : d.id \in ids)

\* data.prompts.map((p) => p.id), as the set $nin tests membership in.
IncomingIds(S) == {S[k].id : k \in 1..Len(S)}

StoreIds(st) == {st[k].id : k \in 1..Len(st)}

Docs(st) == {st[k] : k \in 1..Len(st)}

\* ------------------------------------------------------------- rendering
\* render called without its second argument.
NoVariables == [absent |-> TRUE]

\* The characters of JavaScript strings: a string value is the sequence of its
\* characters, each one of Alphabet: printable ASCII but for the backquote, and
\* the tab, line feed, form feed and carriage return.
LowerLetters ==
  <<"a", "b", "c", "d", "e", "f", "g", "h", "i", "j", "k", "l", "m",
    "n", "o", "p", "q", "r", "s", "t", "u", "v", "w", "x", "y", "z">>
UpperLetters ==
  <<"A", "B", "C", "D", "E", "F", "G", "H", "I", "J", "K", "L", "M",
    "N", "O", "P", "Q", "R", "S", "T", "U", "V", "W", "X", "Y", "Z">>
Digits == <<"0", "1", "2", "3", "4", "5", "6", "7", "8", "9">>
Range(s) == {s[k] : k \in 1..Len(s)}
\* The characters JSON.stringify writes with a backslash.
Escaped == {"\"", "\\", "\t", "\n", "\f", "\r"}
Unescaped ==
  Range(LowerLetters) \cup Range(UpperLetters) \cup Range(Digits)
    \cup {" ", "!", "#", "$", "%", "&", "'", "(", ")", "*", "+", ",", "-", ".", "/",
          ":", ";", "<", "=", ">", "?", "@", "[", "]", "^", "_", "{", "|", "}", "~"}
Alphabet == Unescaped \cup Escaped

\* JavaScript values, each under the name of its type: a string is its
\* characters, a number is an integer, an object is its own properties as
\* JSON.parse creates them: <<key, value>> pairs in insertion order, each key a
\* string's characters and no key twice, each value a string, a number, an
\* object or undefined. No value is a function.
Undefined == [undefined |-> TRUE]
Str(chars) == [str |-> chars]
Num(n) == [num |-> n]
Obj(pairs) == [obj |-> pairs]
\* A string given by its text: what a template or a helper has written.
Txt(s) == [txt |-> s]
\* The options object Handlebars passes a helper after its arguments, in the
\* mustache {{name ...}} that starts at column `start` of line 1 of the source
\* and ends before column `end`, run on the variables `root`:
\*   { name, hash: {}, data: { root }, loc: { start: { line, column }, end: { line, column } } }
Options(name, root, start, end) ==
  [options |-> TRUE, name |-> name, root |-> root, start |-> start, end |-> end]

IsStr(v) == "str" \in DOMAIN v
IsNum(v) == "num" \in DOMAIN v
IsObj(v) == "obj" \in DOMAIN v
IsTxt(v) == "txt" \in DOMAIN v
IsOptions(v) == "options" \in DOMAIN v

\* 'World', 'world', 'hello' and the keys 'foo', 'name', 'first', 'second',
\* 'data' and 'toString'.
WorldStr == Str(<<"W", "o", "r", "l", "d">>)
LowerWorldStr == Str(<<"w", "o", "r", "l", "d">>)
HelloStr == Str(<<"h", "e", "l", "l", "o">>)
FooKey == <<"f", "o", "o">>
NameKey == <<"n", "a", "m", "e">>
FirstKey == <<"f", "i", "r", "s", "t">>
SecondKey == <<"s", "e", "c", "o", "n", "d">>
DataKey == <<"d", "a", "t", "a">>
ToStringKey == <<"t", "o", "S", "t", "r", "i", "n", "g">>

\* {}
NoFields == Obj(<<>>)
\* { name: 'World' }
NameWorld == Obj(<<<<NameKey, WorldStr>>>>)
\* { first: 'hello', second: 'world' }
FirstSecond == Obj(<<<<FirstKey, HelloStr>>, <<SecondKey, LowerWorldStr>>>>)
\* { data: { foo: 1 } }
DataFoo == Obj(<<<<DataKey, Obj(<<<<FooKey, Num(1)>>>>)>>>>)
\* { first: { toString: 1 }, second: 'world' }: `first` has no string form.
FirstOpaque ==
  Obj(<<<<FirstKey, Obj(<<<<ToStringKey, Num(1)>>>>)>>, <<SecondKey, LowerWorldStr>>>>)

\* The second arguments render is called with.
VariableSets == {NoVariables, NoFields, NameWorld, FirstSecond, DataFoo, FirstOpaque}

\* The helpers registerHelper is called with, as <<name, function>>; the
\* functions are
\*   toUpperCase  (str) => str.toUpperCase()
\*   toLowerCase  (str) => str.toLowerCase()
\*   concat       (a, b) => `${a}-${b}`
\*   stringify    (value) => JSON.stringify(value, null, 2)
HelperDefs == {<<"uppercase", "toUpperCase">>, <<"lowercase", "toLowerCase">>}
\* The registrations made beside the reader calls whose results are followed.
ReadHelperDefs ==
  {<<"uppercase", "toUpperCase">>, <<"uppercase", "toLowerCase">>,
   <<"concat", "concat">>, <<"json", "stringify">>}

\* A registration that starts the registry afresh.
SetHelperOnly(reg, name, fn) == [n \in {name} |-> fn]

\* Handlebars.registerHelper(name, fn) on the helper registry reg.
SetHelper(reg, name, fn) ==
  [n \in DOMAIN reg \cup {name} |-> IF n = name THEN fn ELSE reg[n]]

\* The string a content stands for.
RECURSIVE SourceFrom(_, _), Names(_, _)
\* The arguments of a mustache from the k-th on, each after a space.
Names(args, k) ==
  IF k > Len(args) THEN "" ELSE " " \o args[k] \o Names(args, k + 1)
SourceOf(part) ==
  CASE part.t = "text" -> part.s
    [] part.t = "var" -> "{{" \o part.name \o "}}"
    [] part.t = "call" -> "{{" \o part.helper \o Names(part.args, 1) \o "}}"
    [] part.t = "open" -> "{{#if" \o Names(part.args, 1) \o "}}"
    [] part.t = "close" -> "{{/if}}"
SourceFrom(content, k) ==
  IF k > Len(content) THEN "" ELSE SourceOf(content[k]) \o SourceFrom(content, k + 1)
Source(content) == SourceFrom(content, 1)

\* The text of a string value: its characters one after the other.
RECURSIVE Flat(_, _)
Flat(chars, k) == IF k > Len(chars) THEN "" ELSE chars[k] \o Flat(chars, k + 1)

IndexIn(s, c) == CHOOSE k \in 1..Len(s) : s[k] = c

\* String.prototype.toUpperCase / toLowerCase, character by character.
UpperChar(c) ==
  CASE c \in Range(LowerLetters) -> UpperLetters[IndexIn(LowerLetters, c)]
    [] c \in Alphabet \ Range(LowerLetters) -> c
LowerChar(c) ==
  CASE c \in Range(UpperLetters) -> LowerLetters[IndexIn(UpperLetters, c)]
    [] c \in Alphabet \ Range(UpperLetters) -> c
Upper(chars) == [k \in 1..Len(chars) |-> UpperChar(chars[k])]
Lower(chars) == [k \in 1..Len(chars) |-> LowerChar(chars[k])]

\* What an evaluation gives: a value, or a throw.
Produced(v) == [threw |-> FALSE, value |-> v]
Thrown == [threw |-> TRUE, value |-> Undefined]

\* The object has an own property of that key.
HasOwn(v, key) == \E k \in 1..Len(v.obj) : v.obj[k][1] = key

\* An object as a string: Object.prototype.toString's '[object Object]', or a
\* TypeError when an own property toString, which is no function, hides it
\* (valueOf gives no primitive either).
ObjectToString(v) ==
  IF HasOwn(v, ToStringKey) THEN Thrown ELSE Produced(Txt("[object Object]"))

\* `${v}` in a template literal.
Interpolate(v) ==
  CASE IsStr(v) -> Produced(Txt(Flat(v.str, 1)))
    [] IsNum(v) -> Produced(Txt(ToString(v.num)))
    [] v = Undefined -> Produced(Txt("undefined"))
    [] IsObj(v) -> ObjectToString(v)
    [] IsOptions(v) -> Produced(Txt("[object Object]"))

\* The value a mustache appends for value v with noEscape, `v != null ? v : ""`:
\* the empty string for undefined, the value itself otherwise.
Appended(v) ==
  CASE v = Undefined -> Txt("")
    [] IsStr(v) -> Txt(Flat(v.str, 1))
    [] IsTxt(v) \/ IsNum(v) \/ IsObj(v) -> v

\* a + b, in the expression the compiled template joins what its statements append
\* with: the sum of two numbers, the two as strings one after the other otherwise.
Plus(a, b) ==
  LET Primitive(v) == IF IsObj(v) THEN ObjectToString(v) ELSE Produced(v)
      TextOf(p) == IF IsNum(p) THEN ToString(p.num) ELSE p.txt
      pa == Primitive(a)
      pb == Primitive(b)
  IN  IF pa.threw \/ pb.threw THEN Thrown
      ELSE IF IsNum(pa.value) /\ IsNum(pb.value)
           THEN Produced(Num(pa.value.num + pb.value.num))
           ELSE Produced(Txt(TextOf(pa.value) \o TextOf(pb.value)))

\* A character as JSON.stringify writes it inside quotes.
JsonChar(c) ==
  CASE c = "\"" -> "\\\""
    [] c = "\\" -> "\\\\"
    [] c = "\t" -> "\\t"
    [] c = "\n" -> "\\n"
    [] c = "\f" -> "\\f"
    [] c = "\r" -> "\\r"
    [] c \in Unescaped -> c

\* A string, or a key, as JSON.stringify writes it: quoted and escaped.
RECURSIVE JsonChars(_, _)
JsonChars(chars, k) ==
  IF k > Len(chars) THEN "" ELSE JsonChar(chars[k]) \o JsonChars(chars, k + 1)
JsonString(chars) == "\"" \o JsonChars(chars, 1) \o "\""

\* a is before b, both sequences of digits of one length.
RECURSIVE DigitsBefore(_, _, _)
DigitsBefore(a, b, k) ==
  IF k > Len(a) THEN FALSE
  ELSE IF a[k] = b[k] THEN DigitsBefore(a, b, k + 1)
       ELSE IndexIn(Digits, a[k]) < IndexIn(Digits, b[k])

\* The number a is below the number b, both written without leading zeros.
IndexBefore(a, b) ==
  Len(a) < Len(b) \/ (Len(a) = Len(b) /\ DigitsBefore(a, b, 1))

\* 2^32 - 2, the largest integer key.
LargestIndex == <<"4", "2", "9", "4", "9", "6", "7", "2", "9", "4">>

\* The key is an integer key: the canonical writing of an integer from 0 to
\* 2^32 - 2. An object's integer keys come first, in ascending order.
IsIndex(key) ==
  /\ key # <<>>
  /\ \A k \in 1..Len(key) : key[k] \in Range(Digits)
  /\ Len(key) = 1 \/ key[1] # "0"
  /\ ~IndexBefore(LargestIndex, key)

\* Pairs with integer keys, in ascending order of key.
RECURSIVE Ascending(_)
Ascending(pairs) ==
  IF pairs = <<>> THEN <<>>
  ELSE LET least == CHOOSE k \in 1..Len(pairs) :
                      \A j \in 1..Len(pairs) : ~IndexBefore(pairs[j][1], pairs[k][1])
       IN  <<pairs[least]>>
             \o Ascending(SelectSeq(pairs, LAMBDA q : q[1] # pairs[least][1]))

\* The own properties of an object in the order JavaScript enumerates them:
\* integer keys ascending, then the other keys in insertion order.
OwnProperties(pairs) ==
  Ascending(SelectSeq(pairs, LAMBDA q : IsIndex(q[1])))
    \o SelectSeq(pairs, LAMBDA q : ~IsIndex(q[1]))

\* JSON.stringify(v, null, 2) for a string, a number, an object or the options
\* object, with `indent` before each line after the first. A member whose value
\* is undefined is left out, and so are the functions of the options object.
RECURSIVE Json(_, _), JsonMembers(_, _, _)
Json(v, indent) ==
  CASE IsStr(v) -> JsonString(v.str)
    [] IsNum(v) -> ToString(v.num)
    [] IsObj(v) ->
         LET members == SelectSeq(OwnProperties(v.obj), LAMBDA q : q[2] # Undefined)
         IN  IF members = <<>> THEN "{}"
             ELSE "{\n" \o JsonMembers(members, 1, indent \o "  ") \o "\n" \o indent \o "}"
    [] IsOptions(v) ->
         LET in1 == indent \o "  "
             in2 == in1 \o "  "
             in3 == in2 \o "  "
             Place(line, column) ==
               "{\n" \o in3 \o "\"line\": " \o ToString(line) \o ",\n"
                 \o in3 \o "\"column\": " \o ToString(column) \o "\n" \o in2 \o "}"
         IN  "{\n" \o in1 \o "\"name\": \"" \o v.name \o "\",\n"
               \o in1 \o "\"hash\": {},\n"
               \o in1 \o "\"data\": {\n"
               \o in2 \o "\"root\": " \o Json(v.root, in2) \o "\n"
               \o in1 \o "},\n"
               \o in1 \o "\"loc\": {\n"
               \o in2 \o "\"start\": " \o Place(1, v.start) \o ",\n"
               \o in2 \o "\"end\": " \o Place(1, v.end) \o "\n"
               \o in1 \o "}\n" \o indent \o "}"
JsonMembers(pairs, k, indent) ==
  indent \o JsonString(pairs[k][1]) \o ": " \o Json(pairs[k][2], indent)
    \o (IF k < Len(pairs) THEN ",\n" \o JsonMembers(pairs, k + 1, indent) ELSE "")

\* The helper function fn called by a mustache with argument values args; the
\* options object comes right after them, and a parameter beyond it is
\* undefined. Gives what the function returns, or a throw.
ApplyHelper(fn, args, options) ==
  LET Arg(k) == IF k <= Len(args) THEN args[k]
                ELSE IF k = Len(args) + 1 THEN options ELSE Undefined
  IN  CASE fn = "toUpperCase" ->
             IF IsStr(Arg(1)) THEN Produced(Txt(Flat(Upper(Arg(1).str), 1))) ELSE Thrown
        [] fn = "toLowerCase" ->
             IF IsStr(Arg(1)) THEN Produced(Txt(Flat(Lower(Arg(1).str), 1))) ELSE Thrown
        [] fn = "concat" ->
             LET a == Interpolate(Arg(1))
                 b == Interpolate(Arg(2))
             IN  IF a.threw \/ b.threw THEN Thrown
                 ELSE Produced(Txt(a.value.txt \o "-" \o b.value.txt))
        [] fn = "stringify" ->
             IF Arg(1) = Undefined THEN Produced(Undefined)
             ELSE Produced(Txt(Json(Arg(1), "")))

\* variables[name] when the variables have an own property of that name,
\* undefined when they have none.
Lookup(variables, name) ==
  LET hits == SelectSeq(variables.obj, LAMBDA q : Flat(q[1], 1) = name)
  IN  IF hits = <<>> THEN Undefined ELSE hits[1][2]

\* if's test of its argument.
Truthy(v) ==
  CASE IsStr(v) -> v.str # <<>>
    [] IsNum(v) -> v.num # 0
    [] v = Undefined -> FALSE
    [] IsObj(v) -> TRUE

\* The number of {{#if}} blocks left open after part k - 1, or -1 once a {{/if}}
\* has closed a block that was not open.
RECURSIVE OpenBlocks(_, _, _)
OpenBlocks(content, k, depth) ==
  IF k > Len(content) THEN depth
  ELSE IF content[k].t = "open" THEN OpenBlocks(content, k + 1, depth + 1)
  ELSE IF content[k].t = "close"
       THEN IF depth = 0 THEN -1 ELSE OpenBlocks(content, k + 1, depth - 1)
       ELSE OpenBlocks(content, k + 1, depth)

\* The template parses: every block is closed, and nothing else is.
Parses(content) == OpenBlocks(content, 1, 0) = 0

\* The {{/if}} that closes the block around part k, `depth` blocks deep in it.
RECURSIVE BlockEnd(_, _, _)
BlockEnd(content, k, depth) ==
  IF content[k].t = "close"
  THEN IF depth = 0 THEN k ELSE BlockEnd(content, k + 1, depth - 1)
  ELSE BlockEnd(content, k + 1, IF content[k].t = "open" THEN depth + 1 ELSE depth)

\* No statement of the program has appended anything yet.
NoOutput == [none |-> TRUE]

\* The compiled template run on the statements from part k to part `last`, the
\* statements before them having given `acc`: the program's value, or a throw.
\* The value joins with + what the statements append and is the empty string
\* when there is none. A mustache whose name is a registered helper calls it; a
\* mustache with arguments must name one; an {{#if}} block is one statement,
\* whose value is its body's, run as a program of its own when the test holds.
RECURSIVE Execute(_, _, _, _, _, _)
Execute(content, k, last, acc, variables, reg) ==
  IF k > last THEN Produced(IF acc = NoOutput THEN Txt("") ELSE acc)
  ELSE
    LET part == content[k]
        end == IF part.t = "open" THEN BlockEnd(content, k + 1, 0) ELSE k
        start == Len(Source(SubSeq(content, 1, k - 1)))
        options(name) == Options(name, variables, start, start + Len(SourceOf(part)))
        val ==
          CASE part.t = "text" -> Produced(Txt(part.s))
            [] part.t = "var" ->
                 IF part.name \in DOMAIN reg
                 THEN ApplyHelper(reg[part.name], <<>>, options(part.name))
                 ELSE Produced(Lookup(variables, part.name))
            [] part.t = "call" ->
                 IF part.helper \notin DOMAIN reg THEN Thrown
                 ELSE ApplyHelper(reg[part.helper],
                        [j \in 1..Len(part.args) |-> Lookup(variables, part.args[j])],
                        options(part.helper))
            [] part.t = "open" ->
                 IF Len(part.args) # 1 THEN Thrown
                 ELSE IF Truthy(Lookup(variables, part.args[1]))
                      THEN Execute(content, k + 1, end - 1, NoOutput, variables, reg)
                      ELSE Produced(Txt(""))
            [] part.t = "close" -> Thrown
        sum == IF val.threw THEN Thrown
               ELSE IF acc = NoOutput THEN Produced(Appended(val.value))
                    ELSE Plus(acc, Appended(val.value))
    IN  IF sum.threw THEN Thrown
        ELSE Execute(content, end + 1, last, sum.value, variables, reg)

\* Handlebars.compile(content, { noEscape: true })(variables) with the helpers of
\* registry reg: the value the template returns, or a throw when the content does
\* not parse, calls a helper that is not registered, a helper throws or a value
\* has no string form.
HandlebarsRun(content, variables, reg) ==
  IF ~Parses(content) THEN Thrown
  ELSE Execute(content, 1, Len(content), NoOutput, variables, reg)

\* What render returns of the template's value: a string as its text.
TemplateValue(v) == IF IsTxt(v) THEN v.txt ELSE v

\* What a call gives its caller: a value, or a throw.
Returns(v, compiled) == [threw |-> FALSE, value |-> v, compiled |-> compiled]
Throws(compiled) == [threw |-> TRUE, value |-> "", compiled |-> compiled]

\* A render that compiles whether or not variables were passed.
RenderAlwaysCompile(st, promptId, variables, reg) ==
  LET prompt == FindOne(st, [id |-> promptId])
  IN  IF prompt = Null \/ Source(prompt.content) = "" THEN Returns("", FALSE)
      ELSE LET run == HandlebarsRun(prompt.content, variables, reg)
           IN  IF run.threw THEN Returns(Source(prompt.content), TRUE)
               ELSE Returns(TemplateValue(run.value), TRUE)

\* A render without the try/catch around compile and execute.
RenderNoCatch(st, promptId, variables, reg) ==
  LET prompt == FindOne(st, [id |-> promptId])
  IN  IF prompt = Null \/ Source(prompt.content) = "" THEN Returns("", FALSE)
      ELSE IF variables = NoVariables THEN Returns(Source(prompt.content), FALSE)
      ELSE LET run == HandlebarsRun(prompt.content, variables, reg)
           IN  IF run.threw THEN Throws(TRUE) ELSE Returns(TemplateValue(run.value), TRUE)

\* render(promptId, variables) once readyPromise is resolved, on store st with
\* helper registry reg; `compiled` tells whether Handlebars.compile was called.
Render(st, promptId, variables, reg) ==
  LET prompt == FindOne(st, [id |-> promptId])
  IN  IF prompt = Null \/ Source(prompt.content) = "" THEN Returns("", FALSE)
      ELSE IF variables = NoVariables THEN Returns(Source(prompt.content), FALSE)
      ELSE LET run == HandlebarsRun(prompt.content, variables, reg)
           IN  IF run.threw THEN Returns(Source(prompt.content), TRUE)
               ELSE Returns(TemplateValue(run.value), TRUE)

\* --------------------------------------------------------------- readers
\* find called without its argument.
NoParams == [absent |-> TRUE]

RenderCall(id, variables) ==
  [op |-> "render", id |-> id, variables |-> variables, params |-> NoParams]
FindCall(params) ==
  [op |-> "find", id |-> "", variables |-> NoVariables, params |-> params]
FindOneCall(params) ==
  [op |-> "findOne", id |-> "", variables |-> NoVariables, params |-> params]

\* The filters find and findOne are called with.
Filters ==
  {EmptyObject, [agentId |-> "g1"], [version |-> 1],
   [agentId |-> "g1", name |-> "Test Prompt"],
   [agentId |-> "g1", name |-> "Nonexistent"]}

\* The reader calls whose results are followed.
Reads ==
  {RenderCall(id, v) : id \in {"a", "nonexistent"}, v \in VariableSets}
    \cup {FindCall(f) : f \in Filters \cup {NoParams}}
    \cup {FindOneCall(f) : f \in Filters}

\* The reader calls made while handlers overlap.
ConcReads ==
  {RenderCall("a", NoVariables), FindCall(NoParams), FindOneCall([id |-> "a"])}

\* The reader calls made on instances constructed one by one.
NewReads == {RenderCall("a", NameWorld)}

\* The store query of a reader call and what the call returns from it:
\* render's findOne and template, find(params ?? {}), findOne(params).
QueryResult(st, call, reg) ==
  IF call.op = "render" THEN Render(st, call.id, call.variables, reg)
  ELSE IF call.op = "find"
       THEN Returns(Find(st, IF call.params = NoParams THEN EmptyObject ELSE call.params),
                    FALSE)
       ELSE Returns(FindOne(st, call.params), FALSE)

\* No reader call has returned in the latest step.
NoResult == [inst |-> 0]

\* -------------------------------------------------------------- API keys
\* An API key is its characters in order.
RsnPrefix == <<"r", "s", "n", "_">>

\* apiKey.startsWith(prefix)
StartsWith(key, prefix) ==
  Len(key) >= Len(prefix) /\ SubSeq(key, 1, Len(prefix)) = prefix

TestKey == <<"r", "s", "n", "_", "t", "e", "s", "t", "1", "2", "3">>

\* The apiKey values the constructor is called with.
ApiKeys ==
  {<<>>, <<"i", "n", "v", "a", "l", "i", "d">>, <<"r", "s", "n">>,
   <<"x", "r", "s", "n", "_">>, TestKey}

\* No `new Raison(config)` has been evaluated for this instance.
NotConstructed ==
  [phase |-> "none", key |-> <<>>, error |-> "", db |-> FALSE, listeners |-> {},
   born |-> {}]

\* `new Raison({ apiKey: key })` threw before anything was created.
Failed(key, error) ==
  [phase |-> "threw", key |-> key, error |-> error, db |-> FALSE, listeners |-> {},
   born |-> {}]

\* `new Raison({ apiKey: key })` returned: a database, and a listener for each
\* name of Listened; reg holds the helper names registered by then.
Constructed(key, reg) ==
  [phase |-> "built", key |-> key, error |-> "", db |-> TRUE, listeners |-> Listened,
   born |-> DOMAIN reg]

\* ------------------------------------------------------------------ state
VARIABLES
  store,      \* store[i]: the documents of instance i's Prompt model, in order
  ready,      \* ready[i]: readyPromise of instance i is resolved
  connected,  \* connected[i]: instance i has a socket, and it has not been disconnected
  handlers,   \* handlers[i]: the socket handlers in flight, in the order their awaits settle
  readers,    \* readers[i]: the render/find/findOne calls in flight
  calls,      \* calls[i]: calls made on instance i so far
  client,     \* client[i]: what `new Raison(config)` made of instance i
  helpers,    \* the process-wide Handlebars helper registry: name -> function
  \* History, read by the properties only:
  seqStore,   \* seqStore[i]: the store had every event been handled alone, in delivery order
  syncSeen,   \* syncSeen[i]: a 'sync' event has been delivered
  last,       \* last[i]: the event last handled with nothing else in flight, until the next delivery
  snap,       \* snap[i]: the store as it was when the latest event was delivered with nothing in flight
  rep,        \* rep[i]: the latest event repeats the one handled alone just before it
  syncDone,   \* syncDone[i]: a 'sync' handler of instance i has run to completion
  returned    \* the reader call that returned in the latest step, with its result

vars == <<store, ready, connected, handlers, readers, calls, client, helpers,
          seqStore, syncSeen, last, snap, rep, syncDone, returned>>

\* One database shared by every instance.
WriteStoreShared(all, i, st) == [j \in DOMAIN all |-> st]

\* this.Prompt belongs to the instance: a write reaches that instance's store only.
WriteStore(all, i, st) == [all EXCEPT ![i] = st]

\* A flag flipped by every snapshot.
ResolveReadyToggle(rdy) == ~rdy

\* A handler that never calls resolveReady().
ResolveReadyNever(rdy) == rdy

\* resolveReady(): the promise is resolved, whatever it was.
ResolveReady(rdy) == TRUE

\* Nothing has happened on any instance yet; c is what the constructor made of
\* each and open tells whether it has a socket.
Start(c, open) ==
  /\ store = [i \in Instances |-> <<>>]
  /\ ready = [i \in Instances |-> FALSE]
  /\ connected = [i \in Instances |-> open]
  /\ handlers = [i \in Instances |-> <<>>]
  /\ readers = [i \in Instances |-> <<>>]
  /\ calls = [i \in Instances |-> 0]
  /\ client = [i \in Instances |-> c]
  /\ helpers = EmptyObject
  /\ seqStore = [i \in Instances |-> <<>>]
  /\ syncSeen = [i \in Instances |-> FALSE]
  /\ last = [i \in Instances |-> NoEvent]
  /\ snap = [i \in Instances |-> <<>>]
  /\ rep = [i \in Instances |-> FALSE]
  /\ syncDone = [i \in Instances |-> FALSE]
  /\ returned = NoResult

\* State after `new Raison({ apiKey: 'rsn_test123' })` for every instance: an
\* empty store, a pending readiness promise, a connected socket, nothing in flight.
Init == Start(Constructed(TestKey, EmptyObject), TRUE)

\* State before any instance is constructed.
InitNew == Start(NotConstructed, FALSE)

\* ----------------------------------------------- handlers run to completion
\* The 'sync' handler with nothing else running: every upsert in order, then the
\* removal of the documents the snapshot does not name.
RECURSIVE UpsertAll(_, _, _)
UpsertAll(st, S, k) ==
  IF k > Len(S) THEN st
  ELSE UpsertAll(FindOneAndUpdate(st, [id |-> S[k].id], S[k]), S, k + 1)

RunSync(st, S) == DeleteManyNin(UpsertAll(st, S, 1), IncomingIds(S))

\* An event handled alone, from delivery to completion.
RunEvent(st, ev) ==
  IF ev.kind = "sync" THEN RunSync(st, ev.prompts)
  ELSE IF ev.kind = "prompt:deployed"
       THEN FindOneAndUpdate(st, [id |-> ev.prompts[1].id], ev.prompts[1])
       ELSE st

\* ---------------------------------------------------------------- actions
RemoveAt(s, k) == [j \in 1..(Len(s) - 1) |-> IF j < k THEN s[j] ELSE s[j + 1]]

EventOf(h) == [kind |-> h.kind, prompts |-> h.prompts, id |-> h.id]

\* Every handler in flight has now shared its run with another event.
NotAlone(q) == [k \in 1..Len(q) |-> [q[k] EXCEPT !.solo = FALSE]]

\* The handler at the head of instance i's queue is resumed and awaits its next
\* store operation, issued behind those already pending.
AwaitNext(i) ==
  handlers' = [handlers EXCEPT ![i] = Append(Tail(@), [Head(@) EXCEPT !.pc = @ + 1])]

\* The handler at the head of instance i's queue is resumed and returns; it is
\* remembered when nothing else was in flight while it ran.
EndHandler(i) ==
  /\ handlers' = [handlers EXCEPT ![i] = Tail(@)]
  /\ last' = [last EXCEPT ![i] =
       IF Head(handlers[i]).solo THEN EventOf(Head(handlers[i])) ELSE NoEvent]
  /\ snap' = [snap EXCEPT ![i] = IF Head(handlers[i]).solo THEN @ ELSE <<>>]
  /\ rep' = [rep EXCEPT ![i] = Head(handlers[i]).solo /\ @]

\* The transport delivers event ev to instance i, which has at most `room` handlers
\* in flight. A listened event starts its handler, which runs up to its first
\* await; any other event has no listener and nothing runs.
Deliver(i, ev, cap, room) ==
  /\ connected[i]
  /\ calls[i] < cap
  /\ Len(handlers[i]) <= room
  /\ calls' = [calls EXCEPT ![i] = @ + 1]
  /\ seqStore' = [seqStore EXCEPT ![i] = RunEvent(@, ev)]
  /\ syncSeen' = [syncSeen EXCEPT ![i] = @ \/ ev.kind = "sync"]
  /\ snap' = [snap EXCEPT ![i] = IF handlers[i] = <<>> THEN store[i] ELSE <<>>]
  /\ rep' = [rep EXCEPT ![i] = (handlers[i] = <<>> /\ last[i] = ev)]
  /\ returned' = NoResult
  /\ IF ev.kind \in client[i].listeners
     THEN /\ handlers' = [handlers EXCEPT ![i] =
               Append(NotAlone(@),
                      [kind |-> ev.kind, prompts |-> ev.prompts, id |-> ev.id, pc |-> 1,
                       solo |-> (handlers[i] = <<>>),
                       first |-> (ev.kind = "sync" /\ ~syncSeen[i])])]
          /\ last' = [last EXCEPT ![i] = NoEvent]
     ELSE /\ handlers' = [handlers EXCEPT ![i] = NotAlone(@)]
          /\ last' = [last EXCEPT ![i] = IF handlers[i] = <<>> THEN ev ELSE NoEvent]
  /\ UNCHANGED <<store, ready, connected, readers, client, helpers, syncDone>>

\* A reconciliation that empties the store before it writes the first record.
SyncUpsertFromEmpty(i) ==
  /\ handlers[i] # <<>>
  /\ Head(handlers[i]).kind = "sync"
  /\ Head(handlers[i]).pc <= Len(Head(handlers[i]).prompts)
  /\ LET p == Head(handlers[i]).prompts[Head(handlers[i]).pc]
     IN  store' = WriteStore(store, i,
           FindOneAndUpdate(IF Head(handlers[i]).pc = 1 THEN <<>> ELSE store[i],
                            [id |-> p.id], p))
  /\ AwaitNext(i)
  /\ returned' = NoResult
  /\ UNCHANGED <<ready, connected, readers, calls, client, helpers, seqStore, syncSeen,
                 last, snap, rep, syncDone>>

\* 'sync' handler, one turn of the for loop: the awaited findOneAndUpdate settles
\* and the loop goes on to its next await.
SyncUpsert(i) ==
  /\ handlers[i] # <<>>
  /\ Head(handlers[i]).kind = "sync"
  /\ Head(handlers[i]).pc <= Len(Head(handlers[i]).prompts)
  /\ LET p == Head(handlers[i]).prompts[Head(handlers[i]).pc]
     IN  store' = WriteStore(store, i, FindOneAndUpdate(store[i], [id |-> p.id], p))
  /\ AwaitNext(i)
  /\ returned' = NoResult
  /\ UNCHANGED <<ready, connected, readers, calls, client, helpers, seqStore, syncSeen,
                 last, snap, rep, syncDone>>

\* 'sync' handler after the loop: the awaited deleteMany settles, then
\* resolveReady(), and the handler returns.
SyncDeleteStale(i) ==
  /\ handlers[i] # <<>>
  /\ Head(handlers[i]).kind = "sync"
  /\ Head(handlers[i]).pc = Len(Head(handlers[i]).prompts) + 1
  /\ store' = WriteStore(store, i,
       DeleteManyNin(store[i], IncomingIds(Head(handlers[i]).prompts)))
  /\ ready' = [ready EXCEPT ![i] = ResolveReady(@)]
  /\ syncDone' = [syncDone EXCEPT ![i] = TRUE]
  /\ EndHandler(i)
  /\ returned' = NoResult
  /\ UNCHANGED <<connected, readers, calls, client, helpers, seqStore, syncSeen>>

\* A handler that drops the record while the instance is not ready yet.
DeployedUpsertWhenReady(i) ==
  /\ handlers[i] # <<>>
  /\ Head(handlers[i]).kind = "prompt:deployed"
  /\ LET p == Head(handlers[i]).prompts[1]
     IN  store' = IF ready[i]
                  THEN WriteStore(store, i, FindOneAndUpdate(store[i], [id |-> p.id], p))
                  ELSE store
  /\ EndHandler(i)
  /\ returned' = NoResult
  /\ UNCHANGED <<ready, connected, readers, calls, client, helpers, seqStore, syncSeen,
                 syncDone>>

\* 'prompt:deployed' handler: the awaited findOneAndUpdate settles, and the
\* handler returns.
DeployedUpsert(i) ==
  /\ handlers[i] # <<>>
  /\ Head(handlers[i]).kind = "prompt:deployed"
  /\ LET p == Head(handlers[i]).prompts[1]
     IN  store' = WriteStore(store, i, FindOneAndUpdate(store[i], [id |-> p.id], p))
  /\ EndHandler(i)
  /\ returned' = NoResult
  /\ UNCHANGED <<ready, connected, readers, calls, client, helpers, seqStore, syncSeen,
                 syncDone>>

\* disconnect(): socket.disconnect(). Handlers in flight are not touched.
Disconnect(i, cap) ==
  /\ connected[i]
  /\ calls[i] < cap
  /\ calls' = [calls EXCEPT ![i] = @ + 1]
  /\ connected' = [connected EXCEPT ![i] = FALSE]
  /\ returned' = NoResult
  /\ UNCHANGED <<store, ready, handlers, readers, client, helpers, seqStore, syncSeen,
                 last, snap, rep, syncDone>>

ReaderOps == {"render", "find", "findOne"}

\* render / find / findOne is called on instance i, which has at most `room`
\* reader calls in flight, with the arguments of `call`: it runs up to
\* `await this.readyPromise`.
ReaderCall(i, call, cap, room) ==
  /\ client[i].phase = "built"
  /\ call.op \in ReaderOps
  /\ calls[i] < cap
  /\ Len(readers[i]) <= room
  /\ calls' = [calls EXCEPT ![i] = @ + 1]
  /\ readers' = [readers EXCEPT ![i] = Append(@, [call |-> call, pc |-> "gate"])]
  /\ returned' = NoResult
  /\ UNCHANGED <<store, ready, connected, handlers, client, helpers, seqStore, syncSeen,
                 last, snap, rep, syncDone>>

\* A reader that goes on to its query without waiting for readyPromise.
ReaderPassGateUnawaited(i, r) ==
  /\ r \in 1..Len(readers[i])
  /\ readers[i][r].pc = "gate"
  /\ readers' = [readers EXCEPT ![i][r].pc = "query"]
  /\ returned' = NoResult
  /\ UNCHANGED <<store, ready, connected, handlers, calls, client, helpers, seqStore,
                 syncSeen, last, snap, rep, syncDone>>

\* The awaited readyPromise is resolved: the reader goes on to its store query.
ReaderPassGate(i, r) ==
  /\ r \in 1..Len(readers[i])
  /\ readers[i][r].pc = "gate"
  /\ ready[i]
  /\ readers' = [readers EXCEPT ![i][r].pc = "query"]
  /\ returned' = NoResult
  /\ UNCHANGED <<store, ready, connected, handlers, calls, client, helpers, seqStore,
                 syncSeen, last, snap, rep, syncDone>>

\* The reader's store query is answered, the synchronous rest of the call runs
\* and the call returns.
ReaderReturn(i, r) ==
  /\ r \in 1..Len(readers[i])
  /\ readers[i][r].pc = "query"
  /\ readers' = [readers EXCEPT ![i] = RemoveAt(@, r)]
  /\ LET res == QueryResult(store[i], readers[i][r].call, helpers)
     IN  returned' = [inst |-> i, call |-> readers[i][r].call, threw |-> res.threw,
                      value |-> res.value, compiled |-> res.compiled]
  /\ UNCHANGED <<store, ready, connected, handlers, calls, client, helpers, seqStore,
                 syncSeen, last, snap, rep, syncDone>>

\* Raison.registerHelper(name, fn): Handlebars.registerHelper on the registry
\* every instance compiles with.
RegisterHelper(name, fn) ==
  /\ helpers' = SetHelper(helpers, name, fn)
  /\ returned' = NoResult
  /\ UNCHANGED <<store, ready, connected, handlers, readers, calls, client, seqStore,
                 syncSeen, last, snap, rep, syncDone>>

\* A constructor that creates the database, opens the socket and registers the
\* listeners before it checks the key.
ConstructThenValidate(i, key) ==
  /\ client[i].phase = "none"
  /\ client' = [client EXCEPT ![i] =
       IF key = <<>>
       THEN [Constructed(key, helpers) EXCEPT !.phase = "threw",
                                              !.error = "API key is required"]
       ELSE IF ~StartsWith(key, RsnPrefix)
            THEN [Constructed(key, helpers) EXCEPT !.phase = "threw",
                                                   !.error = "Invalid API key format"]
            ELSE Constructed(key, helpers)]
  /\ connected' = [connected EXCEPT ![i] = TRUE]
  /\ returned' = NoResult
  /\ UNCHANGED <<store, ready, handlers, readers, calls, helpers, seqStore, syncSeen,
                 last, snap, rep, syncDone>>

\* new Raison({ apiKey: key }) for instance i: throws on an empty key and on a
\* key that does not start with 'rsn_'; otherwise creates the database and the
\* readiness promise, opens the socket and registers the listeners.
Construct(i, key) ==
  /\ client[i].phase = "none"
  /\ IF key = <<>>
     THEN /\ client' = [client EXCEPT ![i] = Failed(key, "API key is required")]
          /\ UNCHANGED connected
     ELSE IF ~StartsWith(key, RsnPrefix)
          THEN /\ client' = [client EXCEPT ![i] = Failed(key, "Invalid API key format")]
               /\ UNCHANGED connected
          ELSE /\ client' = [client EXCEPT ![i] = Constructed(key, helpers)]
               /\ connected' = [connected EXCEPT ![i] = TRUE]
  /\ returned' = NoResult
  /\ UNCHANGED <<store, ready, handlers, readers, calls, helpers, seqStore, syncSeen,
                 last, snap, rep, syncDone>>

\* One instance: events are delivered, readers called and disconnect() called at
\* any moment between two steps of the handlers in flight.
Next ==
  \/ \E ev \in ConcEvents : Deliver(1, ev, MaxCalls, MaxInFlight - 1)
  \/ SyncUpsert(1)
  \/ SyncDeleteStale(1)
  \/ DeployedUpsert(1)
  \/ Disconnect(1, MaxCalls)
  \/ \E call \in ConcReads : ReaderCall(1, call, MaxCalls, MaxCalls)
  \/ \E r \in 1..MaxCalls : ReaderPassGate(1, r)
  \/ \E r \in 1..MaxCalls : ReaderReturn(1, r)

Spec == Init /\ [][Next]_vars

\* The same, with the job queue running every continuation that is ready to run:
\* a reader whose awaited promise is resolved is resumed.
SpecLive ==
  /\ Init
  /\ [][Next]_vars
  /\ WF_vars(\E r \in 1..MaxCalls : ReaderPassGate(1, r))
  /\ WF_vars(\E r \in 1..MaxCalls : ReaderReturn(1, r))

\* One instance, each event delivered once the handler before it has returned.
NextSeq ==
  \/ \E ev \in Events : Deliver(1, ev, MaxCalls, 0)
  \/ SyncUpsert(1)
  \/ SyncDeleteStale(1)
  \/ DeployedUpsert(1)

SpecSeq == Init /\ [][NextSeq]_vars

\* Two instances side by side, each handling its events one at a time.
NextIso ==
  \E i \in Instances :
    \/ \E ev \in IsoEvents : Deliver(i, ev, IsoCalls, 0)
    \/ SyncUpsert(i)
    \/ SyncDeleteStale(i)
    \/ DeployedUpsert(i)

SpecIso == Init /\ [][NextIso]_vars

\* One instance, its events handled one at a time, with reader calls of every
\* kind and helper registrations at any moment.
NextRead ==
  \/ \E ev \in ReadEvents : Deliver(1, ev, ReadCalls, 0)
  \/ SyncUpsert(1)
  \/ SyncDeleteStale(1)
  \/ \E call \in Reads : ReaderCall(1, call, ReadCalls, 0)
  \/ ReaderPassGate(1, 1)
  \/ ReaderReturn(1, 1)
  \/ \E def \in ReadHelperDefs : RegisterHelper(def[1], def[2])

SpecRead == Init /\ [][NextRead]_vars

\* Instances constructed one by one, with helper registrations before and after.
NextNew ==
  \/ \E def \in HelperDefs : RegisterHelper(def[1], def[2])
  \/ \E i \in Instances :
       \/ \E key \in ApiKeys : Construct(i, key)
       \/ \E ev \in NewEvents : Deliver(i, ev, NewCalls, 0)
       \/ SyncUpsert(i)
       \/ SyncDeleteStale(i)
       \/ \E call \in NewReads : ReaderCall(i, call, NewCalls, 0)
       \/ ReaderPassGate(i, 1)
       \/ ReaderReturn(i, 1)

SpecNew == InitNew /\ [][NextNew]_vars

\* ------------------------------------------------------------- properties
\* The last entry of S for an id.
LastOccurrence(S, id) ==
  S[CHOOSE k \in 1..Len(S) : S[k].id = id /\ \A j \in (k + 1)..Len(S) : S[j].id # id]

\* st mirrors snapshot S: the same ids, and under each id the last entry of S for it.
Mirror(st, S) ==
  /\ StoreIds(st) = IncomingIds(S)
  /\ \A k \in 1..Len(st) : st[k] = LastOccurrence(S, st[k].id)

\* C1 (mirror property): once a 'sync' handler that ran with no other handler of
\* its instance in flight has completed, the ids of the store are exactly the ids
\* of its record sequence S, and the record under each id is the last entry of S
\* for that id, whatever the store held before.
C1_Mirror ==
  \A i \in Instances : last[i].kind = "sync" => Mirror(store[i], last[i].prompts)

\* A snapshot that names id "a" twice has replaced a store that held "b".
C1_Witness ==
  /\ last[1] = SyncEvent(<<A2, A1>>)
  /\ snap[1] = <<B1>>
  /\ store[1] = <<A1>>

\* C2 (delivery order): once every handler of an instance has completed, its
\* store holds what handling the delivered events one at a time, each to
\* completion, in delivery order, would have left.
C2_DeliveryOrder ==
  \A i \in Instances : handlers[i] = <<>> => Docs(store[i]) = Docs(seqStore[i])

\* The reconciliation of the first delivered 'sync' has completed.
FirstSyncDone(i) ==
  syncSeen[i] /\ \A k \in 1..Len(handlers[i]) : ~handlers[i][k].first

\* C3 (readiness gate): a render, find or findOne call is past its wait on
\* readyPromise, about to query the store, only when the reconciliation of the
\* first delivered 'sync' has fully completed.
C3_ReadinessGate ==
  \A i \in Instances : \A r \in 1..Len(readers[i]) :
    readers[i][r].pc = "query" => FirstSyncDone(i)

\* C4 (readiness-once): a resolved readyPromise stays resolved in every step, be
\* it of a later 'sync', a 'prompt:deployed', a 'prompt:undeployed', a
\* disconnect() or a reader, and a reader waiting on a resolved readyPromise can
\* go on.
C4_ReadinessOnce ==
  [][\A i \in Instances :
       ready[i] =>
         /\ ready'[i]
         /\ \A r \in 1..Len(readers[i]) :
              readers[i][r].pc = "gate" => ENABLED ReaderPassGate(i, r)]_vars

\* A Ready instance, disconnected, with a later 'sync' between its upsert and its
\* removal of stale records.
C4_Witness ==
  /\ ready[1]
  /\ ~connected[1]
  /\ \E k \in 1..Len(handlers[1]) :
       handlers[1][k].kind = "sync" /\ handlers[1][k].pc = 2

\* C5 (removal event): once 'prompt:undeployed' with payload {id} has been
\* delivered with nothing else in flight, no record has that id: findOne({id})
\* is null and render(id) is the empty string; the other records are as before.
C5_Removal ==
  \A i \in Instances :
    last[i].kind = "prompt:undeployed" =>
      /\ FindOne(store[i], [id |-> last[i].id]) = Null
      /\ Render(store[i], last[i].id, NoVariables, helpers).value = ""
      /\ \A d \in Docs(snap[i]) : d.id # last[i].id => d \in Docs(store[i])

\* The documents of st whose id is not id, in store order.
Others(st, id) == SelectSeq(st, LAMBDA d : d.id # id)

\* The 'prompt:deployed' handler in flight on instance i returns in this step.
DeployedEnds(i) ==
  /\ handlers[i] # <<>>
  /\ Head(handlers[i]).kind = "prompt:deployed"
  /\ handlers'[i] = Tail(handlers[i])

\* C6 (upsert event): in the step that ends a 'prompt:deployed' handler with
\* record r, whatever else is in flight, the store comes to hold exactly one
\* record with r's id, equal to r in every field, every record with another id
\* is left as it was, and render(r.id) without variables is r.content.
C6_Upsert ==
  [][\A i \in Instances :
       DeployedEnds(i) =>
         LET r == Head(handlers[i]).prompts[1]
         IN  /\ Find(store'[i], [id |-> r.id]) = <<r>>
             /\ Others(store'[i], r.id) = Others(store[i], r.id)
             /\ Render(store'[i], r.id, NoVariables, helpers).value = Source(r.content)]_vars

\* 'prompt:deployed' has replaced the record of id "a" in full, beside a record
\* of id "b".
C6_Witness ==
  /\ last[1] = DeployedEvent(A2)
  /\ snap[1] = <<A1, B1>>
  /\ store[1] = <<A2, B1>>

\* C7 (disconnect cancels): once disconnect() has returned, no step changes the
\* store of that instance.
C7_DisconnectCancels ==
  [][\A i \in Instances : ~connected[i] => store'[i] = store[i]]_vars

\* C8 (isolation): a step of instance i, delivery or handler, leaves the store
\* and the readiness of every other instance as they were; and an instance with
\* nothing in flight holds what its own events, handled in order, leave, and is
\* Ready exactly when a 'sync' was delivered to it.
C8_Isolation ==
  /\ [][\A i \in Instances : \A j \in Instances \ {i} :
          (handlers'[i] # handlers[i] \/ calls'[i] # calls[i]) =>
             store'[j] = store[j] /\ ready'[j] = ready[j]]_vars
  /\ [](\A j \in Instances :
          handlers[j] = <<>> => store[j] = seqStore[j] /\ ready[j] = syncSeen[j])

\* The two instances hold different records under the same id, one Ready and
\* one Pending.
C8_Witness ==
  /\ store[1] = <<A1>> /\ ready[1]
  /\ store[2] = <<A2>> /\ ~ready[2]
  /\ handlers[1] = <<>> /\ handlers[2] = <<>>

\* C9 (patch independence): a 'prompt:deployed' or 'prompt:undeployed' event
\* handled alone leaves the store its handler leaves from the store it found,
\* whether readyPromise is resolved or not, and an instance to which no 'sync'
\* was delivered is Pending.
C9_PatchIndependence ==
  \A i \in Instances :
    /\ last[i].kind \in {"prompt:deployed", "prompt:undeployed"} =>
         store[i] = RunEvent(snap[i], last[i])
    /\ ~syncSeen[i] => ~ready[i]

\* A Pending instance that has received two patch events and holds the record
\* of the second.
C9_Witness ==
  /\ ~ready[1]
  /\ calls[1] = 2
  /\ last[1] = DeployedEvent(A2)
  /\ snap[1] = <<A1>>
  /\ store[1] = <<A2>>

\* C10 (snapshot idempotence): when a 'sync' with record sequence S has been
\* reconciled alone right after a 'sync' with the same S was, the store is
\* identical to what it was after the first.
C10_Idempotence ==
  \A i \in Instances : (last[i].kind = "sync" /\ rep[i]) => store[i] = snap[i]

\* A two-record snapshot reconciled twice in a row over a store that held
\* something else.
C10_Witness ==
  /\ last[1] = SyncEvent(<<B1, A1>>)
  /\ rep[1]
  /\ calls[1] = 3
  /\ store[1] = <<A1, B1>>

\* A reader call of kind op has returned in the latest step, on a Ready instance.
Returned(op) ==
  /\ returned.inst # 0
  /\ returned.call.op = op
  /\ ready[returned.inst]

\* The store the call that has just returned was answered from: no step has
\* been taken since.
AnsweredFrom == store[returned.inst]

\* The documents of st that agree with filter on every field the filter names.
Agreeing(st, filter) ==
  {d \in Docs(st) : \A f \in DOMAIN filter : d[f] = filter[f]}

\* The filter a find / findOne call asks for: none given is the empty filter.
Asked(call) == IF call.params = NoParams THEN EmptyObject ELSE call.params

\* C11 (lookup misses): on a Ready instance, a render of an id that has no record
\* returns the empty string, with or without variables, and so does a render of a
\* record whose content is the empty string; a findOne whose filter no record
\* agrees with returns null, and such a find returns the empty sequence; none of
\* them throws.
C11_LookupMiss ==
  /\ Returned("render") =>
       ((returned.call.id \notin StoreIds(AnsweredFrom)
           \/ \E d \in Docs(AnsweredFrom) : d.id = returned.call.id /\ d.content = <<>>)
          => ~returned.threw /\ returned.value = "")
  /\ Returned("findOne") =>
       (Agreeing(AnsweredFrom, Asked(returned.call)) = {}
          => ~returned.threw /\ returned.value = Null)
  /\ Returned("find") =>
       (Agreeing(AnsweredFrom, Asked(returned.call)) = {}
          => ~returned.threw /\ returned.value = <<>>)

\* render('nonexistent', { name: 'World' }) has returned from a store that holds
\* another id.
C11_Witness ==
  /\ Returned("render")
  /\ returned.call = RenderCall("nonexistent", NameWorld)
  /\ AnsweredFrom = <<A1, B1>>
  /\ returned.value = ""

\* C12 (raw passthrough): on a Ready instance, a render called without variables
\* returns the content stored under the id exactly as stored, and Handlebars.compile
\* is not called, whatever the content: plain, a template, or malformed.
C12_RawPassthrough ==
  (Returned("render") /\ returned.call.variables = NoVariables) =>
    /\ ~returned.threw
    /\ ~returned.compiled
    /\ \A d \in Docs(AnsweredFrom) :
         d.id = returned.call.id =>
           /\ returned.value = Source(d.content)
           /\ d = A1 => returned.value = "Hello {{name}}!"
           /\ d = AM => returned.value = "Hello {{#if}}!"
           /\ d = AC => returned.value = "{{concat first second}}"

\* render('a') has returned the malformed content as it is stored.
C12_Witness ==
  /\ Returned("render")
  /\ returned.call = RenderCall("a", NoVariables)
  /\ AnsweredFrom = <<AM>>
  /\ returned.value = "Hello {{#if}}!"

\* C13 (fallback on failure): on a Ready instance, a render called with variables
\* does not throw; when compiling or executing the stored content fails (it does
\* not parse, it calls a helper that is not registered, the helper throws: on an
\* undefined argument for 'uppercase', on { toString: 1 } for 'concat') the stored
\* content is returned as it is, and when it succeeds the produced text is.
C13_Fallback ==
  (Returned("render") /\ returned.call.variables # NoVariables) =>
    LET v == returned.call.variables
        has(name) == name \in DOMAIN helpers
    IN  /\ ~returned.threw
        /\ \A d \in Docs(AnsweredFrom) :
             (d.id = returned.call.id /\ d # AE) =>
               /\ returned.compiled
               /\ d = AM => returned.value = "Hello {{#if}}!"
               /\ d = A1 =>
                    returned.value =
                      (IF v = NameWorld THEN "Hello World!" ELSE "Hello !")
               /\ d = AH =>
                    returned.value =
                      (IF has("uppercase") /\ v = NameWorld
                       THEN (IF helpers["uppercase"] = "toUpperCase"
                             THEN "Hello WORLD!" ELSE "Hello world!")
                       ELSE "Hello {{uppercase name}}!")
               /\ d = AC =>
                    returned.value =
                      (IF ~has("concat") \/ v = FirstOpaque THEN "{{concat first second}}"
                       ELSE IF v = FirstSecond
                            THEN "hello-world" ELSE "undefined-undefined")
               /\ d = AJ =>
                    returned.value =
                      (IF ~has("json") THEN "{{json data}}"
                       ELSE IF v = DataFoo
                            THEN "{\n  \"foo\": 1\n}" ELSE "")

\* render('a', { name: 'World' }) has returned the malformed content as it is
\* stored, without throwing.
C13_Witness ==
  /\ Returned("render")
  /\ returned.call = RenderCall("a", NameWorld)
  /\ AnsweredFrom = <<AM>>
  /\ ~returned.threw
  /\ returned.value = "Hello {{#if}}!"

\* C15 (filter matching): on a Ready instance, find returns exactly the records
\* that equal the filter on every field the filter names, each once (every record
\* when the filter is absent or empty), and findOne returns one of those records
\* when there is one and null when there is none.
C15_FilterMatching ==
  /\ Returned("find") =>
       /\ Docs(returned.value) = Agreeing(AnsweredFrom, Asked(returned.call))
       /\ Len(returned.value) = Cardinality(Agreeing(AnsweredFrom, Asked(returned.call)))
       /\ Asked(returned.call) = EmptyObject => returned.value = AnsweredFrom
  /\ Returned("findOne") =>
       IF Agreeing(AnsweredFrom, Asked(returned.call)) = {}
       THEN returned.value = Null
       ELSE returned.value \in Agreeing(AnsweredFrom, Asked(returned.call))

\* find({ agentId: 'g1' }) has returned the one record of that agent out of two
\* stored.
C15_Witness ==
  /\ Returned("find")
  /\ returned.call = FindCall([agentId |-> "g1"])
  /\ AnsweredFrom = <<A1, B1>>
  /\ returned.value = <<A1>>

\* The key is one the constructor accepts: not empty, and its first four
\* characters are r, s, n, _.
WellFormed(key) ==
  /\ Len(key) >= 4
  /\ key[1] = "r" /\ key[2] = "s" /\ key[3] = "n" /\ key[4] = "_"

\* C14 (construction fails fast): `new Raison({ apiKey })` with an empty key, or
\* one that does not start with 'rsn_', has thrown, and has left no database, no
\* socket, no listener, nothing running and nothing stored; with a key that
\* starts with 'rsn_' it has not thrown, and the instance has its database and
\* its listeners.
C14_FailFast ==
  \A i \in Instances :
    client[i].phase # "none" =>
      IF WellFormed(client[i].key)
      THEN /\ client[i].phase = "built"
           /\ client[i].db
           /\ client[i].listeners = {"sync", "prompt:deployed"}
      ELSE /\ client[i].phase = "threw"
           /\ client[i].error =
                (IF client[i].key = <<>> THEN "API key is required"
                                         ELSE "Invalid API key format")
           /\ ~client[i].db
           /\ ~connected[i]
           /\ client[i].listeners = {}
           /\ handlers[i] = <<>> /\ store[i] = <<>> /\ calls[i] = 0

\* `new Raison({ apiKey: 'invalid' })` has thrown, beside an instance built with
\* 'rsn_test123' that has taken a snapshot since.
C14_Witness ==
  /\ client[1].phase = "threw"
  /\ client[1].key = <<"i", "n", "v", "a", "l", "i", "d">>
  /\ ~connected[1]
  /\ client[2].phase = "built"
  /\ ready[2]

\* C16 (helper registry): no step takes a name out of the helper registry, and a
\* render with variables of a template that calls the helper 'uppercase', done on
\* any instance while that name is registered, returns the text the registered
\* function produces, whether the instance was constructed before the
\* registration or after it.
C16_HelperRegistry ==
  /\ [][DOMAIN helpers \subseteq DOMAIN helpers']_vars
  /\ [](\A i \in Instances :
          (/\ returned.inst = i
           /\ returned.call = RenderCall("a", NameWorld)
           /\ store[i] = <<AH>>
           /\ "uppercase" \in DOMAIN helpers)
            => returned.value = "Hello WORLD!")

\* Instance 1, constructed before 'uppercase' was registered, has rendered with
\* the helper; instance 2 was constructed after the registration.
C16_Witness ==
  /\ returned.inst = 1
  /\ "uppercase" \notin client[1].born
  /\ returned.value = "Hello WORLD!"
  /\ client[2].phase = "built"
  /\ "uppercase" \in client[2].born
  /\ DOMAIN helpers = {"uppercase", "lowercase"}

\* C17 (unique ids): in every state of every store, whatever handlers are in
\* flight and however their steps interleave, no two records have the same id.
C17_UniqueIds ==
  \A i \in Instances : \A j, k \in 1..Len(store[i]) :
    store[i][j].id = store[i][k].id => j = k

\* Two 'prompt:deployed' handlers for id "b" were in flight at the same time, on
\* a store without "b": the first has upserted, the second is about to.
C17_Witness ==
  /\ calls[1] = 2
  /\ Len(handlers[1]) = 1
  /\ EventOf(handlers[1][1]) = DeployedEvent(B1)
  /\ ~handlers[1][1].solo
  /\ store[1] = <<B1>>

\* C19 (no snapshot, no answer): as long as no 'sync' handler of an instance has
\* run to completion, every reader call made on it is still waiting on
\* readyPromise and none has returned, whatever 'prompt:deployed' and
\* 'prompt:undeployed' events were delivered and whether or not disconnect() was
\* called.
C19_NoSnapshotNoAnswer ==
  \A i \in Instances :
    ~syncDone[i] =>
      /\ \A r \in 1..Len(readers[i]) : readers[i][r].pc = "gate"
      /\ returned.inst # i

\* A disconnected instance that holds a deployed record and has completed no
\* 'sync' has a reader call still waiting.
C19_Witness ==
  /\ ~syncDone[1]
  /\ ~connected[1]
  /\ store[1] # <<>>
  /\ readers[1] # <<>>
  /\ calls[1] = MaxCalls
  /\ handlers[1] = <<>>

\* C20 (no transient loss): while a 'sync' with records S is reconciled on a
\* Ready instance with nothing else in flight, and once it is done, every id that
\* was in the store before and is in S has a record, and every id of the store
\* was in the store before or is in S.
C20_NoTransientLoss ==
  \A i \in Instances :
    LET S == IF handlers[i] # <<>> THEN Head(handlers[i]).prompts ELSE last[i].prompts
        resync == /\ syncDone[i]
                  /\ IF handlers[i] # <<>>
                     THEN Head(handlers[i]).kind = "sync" /\ Head(handlers[i]).solo
                     ELSE last[i].kind = "sync"
    IN  resync =>
          /\ StoreIds(snap[i]) \cap IncomingIds(S) \subseteq StoreIds(store[i])
          /\ StoreIds(store[i]) \subseteq StoreIds(snap[i]) \cup IncomingIds(S)

\* A re-sync with <<B1, A2>> over a Ready store <<A1, B1>> is between its first
\* and its second upsert.
C20_Witness ==
  /\ syncDone[1] /\ ready[1]
  /\ Len(handlers[1]) = 1
  /\ Head(handlers[1]).solo
  /\ Head(handlers[1]).prompts = <<B1, A2>>
  /\ Head(handlers[1]).pc = 2
  /\ snap[1] = <<A1, B1>>
  /\ store[1] = <<A1, B1>>

\* C18 (all waiters release): once a 'sync' handler has run to completion, every
\* reader call in flight, however many there are and whether made before or
\* after, returns, with no further event needed: the instance comes to have no
\* reader call in flight.
C18_WaitersRelease == syncDone[1] ~> (readers[1] = <<>>)

\* A 'sync' handler has completed while two reader calls were waiting on
\* readyPromise.
C18_Witness ==
  /\ syncDone[1]
  /\ last[1].kind = "sync"
  /\ Len(readers[1]) = 2
  /\ \A r \in 1..2 : readers[1][r].pc = "gate"

====
